---- MODULE Spec2Model ----
(***************************************************************************)
(* Model of register/orchids_register.py: the batch loop (__main__), one   *)
(* registration attempt (register_one_account) and its helpers             *)
(* (create_temp_email, wait_for_code, force_inject_turnstile,              *)
(* upload_to_server).  External channels (mail API, browser driver,        *)
(* registry API, output file) are nondeterministic: every call either      *)
(* returns one of a small set of results or raises.                        *)
(***************************************************************************)
EXTENDS Integers, Sequences, FiniteSets, TLC

(***************************************************************************)
(* Bounds of the model and constants of the program.                       *)
(***************************************************************************)
\* number of attempts of the batch (the program runs 20; the model fewer)
total_num == 3
\* range(15): iterations of the challenge loop
ProbeBudget == 15
\* while time.time() - start < 120
Deadline == 120
\* time.sleep(3) between polls
PollInterval == 3
\* timeout=10 of the mailbox query: a request that times out lasts this long
RequestTimeout == 10
\* a request that is answered (or refused) at once still takes this long
QuickSecs == 1
\* \d{6}
CodeLen == 6

(***************************************************************************)
(* Text.  A Python str is a sequence of one-character strings; an HTML     *)
(* character reference is one element ("&#49;", "&lt;", "&gt;", "&nbsp;")  *)
(* until html.unescape replaces it.                                        *)
(***************************************************************************)
Digits == {"0", "1", "2", "3", "4", "5", "6", "7", "8", "9"}

\* Python's None, for values that are otherwise str
PyNone == [t |-> "None"]
Str(s) == [t |-> "str", s |-> s]

\* re.search(regex_strict, source): the leftmost k where six digits stand
\* with no digit before and none after; <<>> when there is no match
RECURSIVE SearchFrom(_, _)
SearchFrom(s, k) ==
    IF k + CodeLen - 1 > Len(s) THEN <<>>
    ELSE IF /\ \A j \in k..(k + CodeLen - 1) : s[j] \in Digits
            /\ (k > 1 => s[k - 1] \notin Digits)
            /\ (k + CodeLen <= Len(s) => s[k + CodeLen] \notin Digits)
         THEN SubSeq(s, k, k + CodeLen - 1)
         ELSE SearchFrom(s, k + 1)

regex_strict(s) == SearchFrom(s, 1)

\* html.unescape: character references become the characters they name
UnescapeChar(c) ==
    CASE c = "&#49;"  -> "1"
      [] c = "&lt;"   -> "<"
      [] c = "&gt;"   -> ">"
      [] c = "&nbsp;" -> "nbsp"
      [] OTHER        -> c

html_unescape(s) == [k \in 1..Len(s) |-> UnescapeChar(s[k])]

\* re.sub(r'<[^>]+>', ' ', s): a "<", at least one character that is not
\* ">", then ">" becomes one space; a "<" that opens no such tag stays
RECURSIVE StripFrom(_, _)
StripFrom(s, k) ==
    IF k > Len(s) THEN <<>>
    ELSE LET closers == {j \in (k + 1)..Len(s) : s[j] = ">"}
             first == CHOOSE j \in closers : \A j2 \in closers : j <= j2
         IN IF s[k] = "<" /\ closers # {} /\ first >= k + 2
            THEN <<" ">> \o StripFrom(s, first + 1)
            ELSE <<s[k]>> \o StripFrom(s, k + 1)

strip_tags(s) == StripFrom(s, 1)

\* \s of a str pattern: the space and the no-break space among others
IsSpace(c) == c \in {" ", "nbsp", "\n", "\t"}

\* re.sub(r'\s+', ' ', s).strip(): each run of whitespace becomes one space,
\* then leading and trailing whitespace goes
RECURSIVE CollapseFrom(_, _)
CollapseFrom(s, k) ==
    IF k > Len(s) THEN <<>>
    ELSE IF IsSpace(s[k])
         THEN IF k > 1 /\ IsSpace(s[k - 1])
              THEN CollapseFrom(s, k + 1)
              ELSE <<" ">> \o CollapseFrom(s, k + 1)
         ELSE <<s[k]>> \o CollapseFrom(s, k + 1)

RECURSIVE Strip(_)
Strip(s) ==
    IF s = <<>> THEN s
    ELSE IF IsSpace(s[1]) THEN Strip(Tail(s))
    ELSE IF IsSpace(s[Len(s)]) THEN Strip(SubSeq(s, 1, Len(s) - 1))
    ELSE s

collapse_ws(s) == Strip(CollapseFrom(s, 1))

\* lines 97-99: the HTML cleaning of the body
text_content(raw) == collapse_ws(strip_tags(html_unescape(raw)))

(***************************************************************************)
(* Mailbox messages.  A message is a JSON object: a key may be absent, or  *)
(* present with the value null (None) or a string.                         *)
(***************************************************************************)
\* dict.get(key, default)
Get(m, key, default) == IF key \in DOMAIN m THEN m[key] ELSE default

\* truthiness of a value that is None or a str
Truthy(v) == v.t = "str" /\ v.s # <<>>

SubjCode == <<"c", " ", "1", "2", "3", "4", "5", "6">>
SubjPlain == <<"h", "i">>
SubjLong == <<"1", "2", "3", "4", "5", "6", "7">>
BodyCode == <<"<", "p", ">", "6", "5", "4", "3", "2", "1", "<", "/", "p", ">">>
BodySplit == <<"1", "2", "3", "<", "b", ">", "4", "5", "6">>
BodyEntity == <<"n", "o", "&nbsp;", "&#49;", "1", "1", "1", "1", "1", "&nbsp;", "2", "2", "2", "2", "2", "2">>
BodyHidden == <<"&lt;", "6", "5", "4", "3", "2", "1", "&gt;">>

\* the messages the mail API may return as the newest one
Messages ==
    { [id |-> "id1", subject |-> Str(SubjCode), content |-> Str(BodyCode)],
      [id |-> "id2", content |-> Str(<<>>), html_content |-> Str(BodyCode)],
      [id |-> "id1", subject |-> Str(SubjPlain)],
      [id |-> "id2", subject |-> Str(SubjLong), content |-> Str(BodySplit)],
      [id |-> "id1", subject |-> PyNone, content |-> Str(BodyCode)],
      [id |-> "id1", subject |-> Str(SubjPlain), content |-> Str(BodyEntity)],
      [id |-> "id2", subject |-> Str(SubjPlain), content |-> Str(BodyHidden)],
      [id |-> "id2", content |-> PyNone],
      [id |-> "id1", subject |-> Str(SubjPlain), content |-> PyNone,
       html_content |-> Str(BodySplit)],
      [id |-> "id2", subject |-> Str(SubjCode), content |-> PyNone] }

\* line 89: latest_email.get('id')
email_id_of(m) == m["id"]

\* line 93
subject_of(m) == Get(m, "subject", Str(<<>>))

\* line 94: content or html_content or ''
raw_content_of(m) ==
    IF Truthy(Get(m, "content", PyNone)) THEN m["content"].s
    ELSE IF Truthy(Get(m, "html_content", PyNone)) THEN m["html_content"].s
    ELSE <<>>

\* lines 104-109: for source in [subject, text_content]: the first source
\* with a match gives the code.  re.search on None raises TypeError.
RECURSIVE SearchSources(_)
SearchSources(sources) ==
    IF sources = <<>> THEN [raised |-> FALSE, code |-> <<>>]
    ELSE IF Head(sources).t # "str" THEN [raised |-> TRUE, code |-> <<>>]
    ELSE IF regex_strict(Head(sources).s) # <<>>
         THEN [raised |-> FALSE, code |-> regex_strict(Head(sources).s)]
         ELSE SearchSources(Tail(sources))

\* line 104: the order of the sources
Sources(m) == << subject_of(m), Str(text_content(raw_content_of(m))) >>

\* lines 93-109 on one new message
extract_code(m) == SearchSources(Sources(m))

(***************************************************************************)
(* Cookies.  A domain is its sequence of labels.                           *)
(***************************************************************************)
ParentCookie == [name |-> "__client", domain |-> <<"orchids", "app">>, value |-> "A"]
ClerkCookie == [name |-> "__client", domain |-> <<"clerk", "orchids", "app">>, value |-> "B"]
OtherCookie == [name |-> "__client_uat", domain |-> <<"orchids", "app">>, value |-> "C"]
CookiePool == {ParentCookie, ClerkCookie, OtherCookie}

\* every list of distinct cookies of the pool, in every order
CookieLists ==
    { l \in UNION { [1..n -> CookiePool] : n \in 0..Cardinality(CookiePool) } :
        \A a, b \in DOMAIN l : a # b => l[a] # l[b] }

\* lines 263-277: the loop over all_cookies; every cookie named __client
\* assigns client_key, so the last one in the list is kept
RECURSIVE SelectFrom(_, _)
SelectFrom(cookies, key) ==
    IF cookies = <<>> THEN key
    ELSE SelectFrom(Tail(cookies),
                    IF Head(cookies).name = "__client" THEN Head(cookies).value ELSE key)

select_client_key(cookies) == SelectFrom(cookies, "None")

(***************************************************************************)
(* force_inject_turnstile (lines 116-167).  A document is what the script  *)
(* of lines 120-148 looks at: the document and the open shadow roots below *)
(* it in the order searchShadow visits them, each with or without an       *)
(* element that the selector of line 126 finds, and the index of the       *)
(* shadow root that hangs under a Turnstile container (0: none).           *)
(***************************************************************************)
MaxFrames == 2

Docs ==
    { [roots |-> <<FALSE>>, container |-> 0],
      [roots |-> <<TRUE>>, container |-> 0],
      [roots |-> <<FALSE, FALSE>>, container |-> 2],
      [roots |-> <<FALSE, TRUE>>, container |-> 2],
      [roots |-> <<TRUE, TRUE>>, container |-> 0] }
EmptyDoc == [roots |-> <<FALSE>>, container |-> 0]

\* lines 124-132: searchShadow over the roots from the k-th on; a call made
\* once clicked is set returns at line 125
RECURSIVE searchShadow(_, _, _)
searchShadow(roots, k, st) ==
    IF k > Len(roots) THEN st
    ELSE IF st.clicked THEN searchShadow(roots, k + 1, st)
    ELSE IF roots[k]
         THEN searchShadow(roots, k + 1, [clicked |-> TRUE, clicks |-> st.clicks + 1])
         ELSE searchShadow(roots, k + 1, st)

\* lines 121-146: findAndClick; the containers of line 137 are looked at only
\* when the search of line 133 clicked nothing
findAndClick(doc) ==
    LET st == searchShadow(doc.roots, 1, [clicked |-> FALSE, clicks |-> 0])
    IN  IF st.clicked THEN [result |-> TRUE, clicks |-> st.clicks]
        ELSE IF doc.container # 0 /\ doc.roots[doc.container]
             THEN [result |-> TRUE, clicks |-> 1]
             ELSE [result |-> FALSE, clicks |-> 0]

\* One iframe of the page: whether switch_to.frame (157) returns, whether
\* execute_script (158) returns and on which document, whether
\* switch_to.default_content of line 160 or 162 returns, and whether the one
\* of the handler (164) does.
FrameBehaviours ==
    { f \in [switch : {"ok", "raise"}, script : {"run", "raise"}, doc : Docs,
             back : BOOLEAN, handler : BOOLEAN] :
        /\ f.switch = "raise" => f.script = "run" /\ f.doc = EmptyDoc /\ f.back
        /\ f.script = "raise" => f.doc = EmptyDoc /\ f.back
        /\ (f.switch = "ok" /\ f.script = "run" /\ f.back) => f.handler }

RECURSIVE FrameLists(_)
FrameLists(n) ==
    IF n = 0 THEN {<<>>}
    ELSE LET shorter == FrameLists(n - 1)
         IN  shorter \cup { Append(l, f) : l \in { x \in shorter : Len(x) = n - 1 },
                                           f \in FrameBehaviours }

\* the page a call finds: the script on the main document (149), the list of
\* iframes (154) and what each of them does
Pages ==
    [main_script : {"run", "raise"}, main_doc : Docs, find : {"ok", "raise"},
     frames : FrameLists(MaxFrames)]
NoPage == [main_script |-> "run", main_doc |-> EmptyDoc, find |-> "ok", frames |-> <<>>]

\* what a call did: the value returned, the clicks made, and the scripts run
\* after a click had been made
ProbeResult(r, c, a) == [called |-> TRUE, ret |-> r, clicks |-> c, searched_after_click |-> a]
NoProbe == [called |-> FALSE, ret |-> FALSE, clicks |-> 0, searched_after_click |-> 0]

\* lines 155-164: the loop over the iframes from the k-th on, with c clicks
\* made and a scripts run after a click so far.  The handler of 163-164
\* catches whatever the body raised, the default_content of line 160
\* included, and the loop goes on with the next frame; what the handler
\* itself raises reaches line 165 and the function returns False (167).
RECURSIVE ProbeFrames(_, _, _, _)
ProbeFrames(frames, k, c, a) ==
    IF k > Len(frames) THEN ProbeResult(FALSE, c, a)
    ELSE LET f == frames[k]
             handled(c2, a2) == IF f.handler THEN ProbeFrames(frames, k + 1, c2, a2)
                                ELSE ProbeResult(FALSE, c2, a2)
         IN  IF f.switch = "raise" \/ f.script = "raise" THEN handled(c, a)
             ELSE LET r == findAndClick(f.doc)
                      c2 == c + r.clicks
                      a2 == IF c > 0 THEN a + 1 ELSE a
                  IN  IF r.result
                      THEN IF f.back THEN ProbeResult(TRUE, c2, a2) ELSE handled(c2, a2)
                      ELSE IF f.back THEN ProbeFrames(frames, k + 1, c2, a2)
                           ELSE handled(c2, a2)

\* lines 118-167
force_inject_turnstile(page) ==
    IF page.main_script = "raise" THEN ProbeResult(FALSE, 0, 0)
    ELSE LET r == findAndClick(page.main_doc)
         IN  IF r.result THEN ProbeResult(TRUE, r.clicks, 0)
             ELSE IF page.find = "raise" THEN ProbeResult(FALSE, 0, 0)
             ELSE ProbeFrames(page.frames, 1, 0, 0)

(***************************************************************************)
(* State.                                                                  *)
(***************************************************************************)
VARIABLES
    mainpc,         \* position in __main__
    i,              \* loop variable of the batch
    success_count,  \* running tally
    file,           \* lines of OUTPUT_FILE
    jitters,        \* number of inter-attempt sleeps executed so far
    ret,            \* how the current call of register_one_account ended
    pc,             \* position in register_one_account
    email,          \* the acquired address, or "None"
    driver,         \* the automation session of this attempt
    quits,          \* calls of driver.quit() in this attempt
    success,        \* local flag returned at line 306
    pass_check,     \* local flag of the challenge loop
    attempt,        \* loop variable of the challenge loop
    probes,         \* calls of force_inject_turnstile in this attempt
    code,           \* result of wait_for_code (<<>> is None)
    all_cookies,    \* the extracted cookies
    client_key,     \* the selected credential, or "None"
    uploads,        \* values sent to the registry in this attempt
    logged,         \* failure messages logged in this attempt
    clock,          \* time.time() - start inside wait_for_code
    processed_ids,  \* dedup set of wait_for_code
    extracted,      \* per message id: times lines 92-109 ran on it
    polled,         \* the mailbox was queried for messages in this attempt
    last_poll,      \* how the last iteration of the poll loop went
    appended,       \* lines appended to OUTPUT_FILE in this attempt
    extract_tried,  \* lines 254-260 were reached in this attempt
    registry,       \* how the POST of upload_to_server went, or "none"
    leaked,         \* a session of an earlier attempt is still running
    probe_in,       \* the page given to force_inject_turnstile
    probe_out       \* what force_inject_turnstile did with it

batch_vars == <<mainpc, i, success_count, file, jitters, leaked>>
hist_vars == <<appended, extract_tried, registry>>
probe_vars == <<probe_in, probe_out>>
poll_vars == <<clock, processed_ids, extracted, polled, last_poll>>
local_vars == <<email, driver, quits, success, pass_check, attempt, probes, code,
                all_cookies, client_key, uploads, hist_vars, logged>>
vars == <<batch_vars, ret, pc, local_vars, poll_vars, probe_vars>>

\* lines 55-62: the status of the response, or an exception of the POST
Responses == {"200", "201", "500", "exception"}
Ids == {"id1", "id2"}
NoExtraction == [k \in Ids |-> 0]
Latency == {QuickSecs, RequestTimeout}
OldFiles == { <<>>, <<"old">> }

Init ==
    /\ mainpc = "truncate"
    /\ i = 0
    /\ success_count = 0
    /\ file \in OldFiles
    /\ jitters = 0
    /\ ret = "none"
    /\ pc = "idle"
    /\ email = "None"
    /\ driver = "none"
    /\ quits = 0
    /\ success = FALSE
    /\ pass_check = FALSE
    /\ attempt = 0
    /\ probes = 0
    /\ code = <<>>
    /\ all_cookies = <<>>
    /\ client_key = "None"
    /\ uploads = <<>>
    /\ logged = {}
    /\ clock = 0
    /\ processed_ids = {}
    /\ extracted = NoExtraction
    /\ polled = FALSE
    /\ last_poll = "none"
    /\ appended = 0
    /\ extract_tried = FALSE
    /\ registry = "none"
    /\ leaked = FALSE
    /\ probe_in = NoPage
    /\ probe_out = NoProbe

(***************************************************************************)
(* __main__, lines 310-328.                                                *)
(***************************************************************************)
\* line 315 with the mode "a" of line 281: the file of an earlier run stays
TruncateKeeps ==
    /\ mainpc = "truncate"
    /\ file' = file
    /\ mainpc' = "loop"
    /\ UNCHANGED <<i, success_count, jitters, leaked, ret, pc, local_vars, poll_vars>>
    /\ UNCHANGED probe_vars

\* line 315: open(OUTPUT_FILE, "w") empties the file
Truncate ==
    /\ mainpc = "truncate"
    /\ file' = <<>>
    /\ mainpc' = "loop"
    /\ UNCHANGED <<i, success_count, jitters, leaked, ret, pc, local_vars, poll_vars>>
    /\ UNCHANGED probe_vars

\* line 317-318: the next iteration calls register_one_account(i + 1, total_num)
\* with fresh locals; after the last one the summary is printed (326-328).
\* Nothing looks at the browser of the attempt before: if it was neither
\* quit nor killed it goes on running.
CallAttempt ==
    /\ mainpc = "loop"
    /\ i < total_num
    /\ mainpc' = "attempt"
    /\ pc' = "create_temp_email"
    /\ ret' = "none"
    /\ email' = "None"
    /\ driver' = "none"
    /\ quits' = 0
    /\ success' = FALSE
    /\ pass_check' = FALSE
    /\ attempt' = 0
    /\ probes' = 0
    /\ code' = <<>>
    /\ all_cookies' = <<>>
    /\ client_key' = "None"
    /\ uploads' = <<>>
    /\ logged' = {}
    /\ clock' = 0
    /\ processed_ids' = {}
    /\ extracted' = NoExtraction
    /\ polled' = FALSE
    /\ last_poll' = "none"
    /\ appended' = 0
    /\ extract_tried' = FALSE
    /\ registry' = "none"
    /\ leaked' = (leaked \/ driver = "live")
    /\ UNCHANGED <<i, success_count, file, jitters>>
    /\ UNCHANGED probe_vars

Summary ==
    /\ mainpc = "loop"
    /\ i >= total_num
    /\ mainpc' = "summary"
    /\ UNCHANGED <<i, success_count, file, jitters, leaked, ret, pc, local_vars, poll_vars>>
    /\ UNCHANGED probe_vars

\* lines 318-319: a true result is counted
Tally ==
    /\ mainpc = "attempt"
    /\ ret \in {"True", "False"}
    /\ success_count' = IF ret = "True" THEN success_count + 1 ELSE success_count
    /\ mainpc' = "jitter"
    /\ UNCHANGED <<i, file, jitters, leaked, ret, pc, local_vars, poll_vars>>
    /\ UNCHANGED probe_vars

\* the guard of line 321 without the exception for the last attempt
jitter_due_every(k) == k < total_num

\* line 321: if i < total_num - 1
jitter_due(k) == k < total_num - 1

\* lines 321-324: after an attempt that is not the last, sleep 3 to 6 s; then
\* the for loop advances
JitterSleep ==
    /\ mainpc = "jitter"
    /\ jitter_due(i)
    /\ jitters' = jitters + 1
    /\ i' = i + 1
    /\ mainpc' = "loop"
    /\ UNCHANGED <<success_count, file, leaked, ret, pc, local_vars, poll_vars>>
    /\ UNCHANGED probe_vars

NoJitter ==
    /\ mainpc = "jitter"
    /\ ~jitter_due(i)
    /\ i' = i + 1
    /\ mainpc' = "loop"
    /\ UNCHANGED <<success_count, file, jitters, leaked, ret, pc, local_vars, poll_vars>>
    /\ UNCHANGED probe_vars

\* an exception that leaves register_one_account is not caught by the loop:
\* the process ends with a traceback
Crash ==
    /\ mainpc = "attempt"
    /\ ret = "raised"
    /\ mainpc' = "crashed"
    /\ UNCHANGED <<i, success_count, file, jitters, leaked, ret, pc, local_vars, poll_vars>>
    /\ UNCHANGED probe_vars

(***************************************************************************)
(* register_one_account, lines 171-306.                                    *)
(***************************************************************************)
InAttempt(at) == mainpc = "attempt" /\ ret = "none" /\ pc = at

\* lines 174-176 without the return of line 176: the attempt goes on with
\* the address None
AcquireMailboxNoGuard ==
    /\ InAttempt("create_temp_email")
    /\ \E ok \in BOOLEAN :
        IF ok
        THEN /\ email' = "e"
             /\ UNCHANGED logged
        ELSE /\ logged' = logged \cup {"MailboxUnavailable"}
             /\ UNCHANGED email
    /\ pc' = "create_session"
    /\ UNCHANGED <<batch_vars, ret, driver, quits, success, pass_check, attempt, probes,
                   code, all_cookies, client_key, uploads, hist_vars, poll_vars>>
    /\ UNCHANGED probe_vars

\* lines 174-176 with create_temp_email (64-74): an address, or None after
\* an exception or a response without success; None returns False at once
AcquireMailbox ==
    /\ InAttempt("create_temp_email")
    /\ \E ok \in BOOLEAN :
        IF ok
        THEN /\ email' = "e"
             /\ pc' = "create_session"
             /\ UNCHANGED <<ret, logged>>
        ELSE /\ logged' = logged \cup {"MailboxUnavailable"}
             /\ pc' = "idle"
             /\ ret' = "False"
             /\ UNCHANGED email
    /\ UNCHANGED <<batch_vars, driver, quits, success, pass_check, attempt, probes,
                   code, all_cookies, client_key, uploads, hist_vars, poll_vars>>
    /\ UNCHANGED probe_vars

\* lines 178-184: ChromeOptions and uc.Chrome(...), outside the try block: an
\* exception leaves the function
CreateSession ==
    /\ InAttempt("create_session")
    /\ \E ok \in BOOLEAN :
        IF ok
        THEN /\ driver' = "live"
             /\ pc' = "setup_session"
             /\ UNCHANGED ret
        ELSE /\ pc' = "idle"
             /\ ret' = "raised"
             /\ UNCHANGED driver
    /\ UNCHANGED <<batch_vars, email, quits, success, pass_check, attempt, probes,
                   code, all_cookies, client_key, uploads, hist_vars, logged, poll_vars>>
    /\ UNCHANGED probe_vars

\* lines 185-188: set_window_size, WebDriverWait, success = False; still
\* outside the try block
SetupSession ==
    /\ InAttempt("setup_session")
    /\ \E ok \in BOOLEAN :
        IF ok
        THEN /\ success' = FALSE
             /\ pc' = "get"
             /\ UNCHANGED ret
        ELSE /\ pc' = "idle"
             /\ ret' = "raised"
             /\ UNCHANGED success
    /\ UNCHANGED <<batch_vars, email, driver, quits, pass_check, attempt, probes,
                   code, all_cookies, client_key, uploads, hist_vars, logged, poll_vars>>
    /\ UNCHANGED probe_vars

\* a step inside the try block that changes no variable of the model: it
\* goes on, or raises into the handler of line 295
TryStep(at, next) ==
    /\ InAttempt(at)
    /\ \E ok \in BOOLEAN : pc' = IF ok THEN next ELSE "except"
    /\ UNCHANGED <<batch_vars, ret, local_vars, poll_vars>>
    /\ UNCHANGED probe_vars

\* lines 191-192: driver.get(TARGET_URL)
Navigate == TryStep("get", "open_sign_in")

\* lines 195-198: Sign in, Welcome back, Sign up
OpenSignIn == TryStep("open_sign_in", "fill")

\* lines 201-205: wait for the email field, generate the password, fill both
FillCredentials == TryStep("fill", "continue")

\* lines 207-211: click Continue, or submit the form when the click raises
ClickContinue == TryStep("continue", "loop_check")

\* range(15) taken one too far
loop_has_next_extra(k) == k <= ProbeBudget

\* line 216: for attempt in range(15)
loop_has_next(k) == k < ProbeBudget

\* lines 216-220: one check of the numeric-code input
ChallengeCheck ==
    /\ InAttempt("loop_check")
    /\ loop_has_next(attempt)
    /\ \E found \in {"present", "absent", "raise"} :
        /\ pass_check' = IF found = "present" THEN TRUE ELSE pass_check
        /\ pc' = CASE found = "present" -> "after_loop"
                   [] found = "absent" -> "probe"
                   [] OTHER -> "except"
    /\ UNCHANGED <<batch_vars, ret, email, driver, quits, success, attempt, probes,
                   code, all_cookies, client_key, uploads, hist_vars, logged, poll_vars>>
    /\ UNCHANGED probe_vars

\* lines 223-224: force_inject_turnstile(driver), which swallows every
\* exception, then time.sleep(2); the loop variable advances
Probe ==
    /\ InAttempt("probe")
    /\ probes' = probes + 1
    /\ attempt' = attempt + 1
    /\ pc' = "loop_check"
    /\ UNCHANGED <<batch_vars, ret, email, driver, quits, success, pass_check,
                   code, all_cookies, client_key, uploads, hist_vars, logged, poll_vars>>
    /\ UNCHANGED probe_vars

\* the range is exhausted: the loop ends without break
ChallengeExhausted ==
    /\ InAttempt("loop_check")
    /\ ~loop_has_next(attempt)
    /\ pc' = "after_loop"
    /\ UNCHANGED <<batch_vars, ret, local_vars, poll_vars>>
    /\ UNCHANGED probe_vars

\* lines 226-229: not pass_check: log, driver.quit(), return False.  The
\* return runs the finally block; a raising quit goes to the handler first.
ChallengeNotCleared ==
    /\ InAttempt("after_loop")
    /\ ~pass_check
    /\ logged' = logged \cup {"ChallengeNotCleared"}
    /\ quits' = quits + 1
    /\ \E ok \in BOOLEAN :
        IF ok
        THEN driver' = "released" /\ pc' = "finally"
        ELSE driver' = driver /\ pc' = "except"
    /\ UNCHANGED <<batch_vars, ret, email, success, pass_check, attempt, probes,
                   code, all_cookies, client_key, uploads, hist_vars, poll_vars>>
    /\ UNCHANGED probe_vars

\* lines 232-233: pass_check: wait up to 10 s for the numeric-code input.
\* The loop variable is not read after the loop, and the count of probes is
\* that of the loop just left.
AwaitOtpInput ==
    /\ InAttempt("after_loop")
    /\ pass_check
    /\ \E ok \in BOOLEAN : pc' = IF ok THEN "wait_for_code" ELSE "except"
    /\ attempt' = 0
    /\ probes' = 0
    /\ UNCHANGED <<batch_vars, ret, email, driver, quits, success, pass_check,
                   code, all_cookies, client_key, uploads, hist_vars, logged, poll_vars>>
    /\ UNCHANGED probe_vars

(***************************************************************************)
(* wait_for_code, lines 76-114, called at line 234.                        *)
(***************************************************************************)
\* lines 77-80: start = time.time(), processed_ids = set()
EnterWaitForCode ==
    /\ InAttempt("wait_for_code")
    /\ clock' = 0
    /\ processed_ids' = {}
    /\ extracted' = NoExtraction
    /\ last_poll' = "none"
    /\ pc' = "poll"
    /\ UNCHANGED <<batch_vars, ret, local_vars, polled>>
    /\ UNCHANGED probe_vars

\* line 111 is reached, and time.sleep(3) executed, by the iterations that
\* neither return nor raise
slept == last_poll \in {"empty", "seen", "no_code"}

\* line 82: while time.time() - start < 120
before_deadline(c) == c < Deadline

\* line 91 without the membership test
is_new_always(id, seen) == TRUE

\* line 91: if email_id not in processed_ids
is_new(id, seen) == id \notin seen

\* the except clause of line 112 leaving the loop instead of passing
PollErrorEnds ==
    /\ InAttempt("poll")
    /\ before_deadline(clock)
    /\ \E d \in Latency : clock' = clock + d
    /\ polled' = TRUE
    /\ last_poll' = "error"
    /\ code' = <<>>
    /\ pc' = "got_code"
    /\ UNCHANGED <<batch_vars, ret, email, driver, quits, success, pass_check,
                   attempt, probes, all_cookies, client_key, uploads, hist_vars, logged,
                   processed_ids, extracted>>
    /\ UNCHANGED probe_vars

\* lines 83-85 raise (transport error, timeout, a body that is not JSON or
\* not of the expected shape): except: pass, and time.sleep(3) is skipped
PollError ==
    /\ InAttempt("poll")
    /\ before_deadline(clock)
    /\ \E d \in Latency : clock' = clock + d
    /\ polled' = TRUE
    /\ last_poll' = "error"
    /\ UNCHANGED <<batch_vars, ret, pc, local_vars, processed_ids, extracted>>
    /\ UNCHANGED probe_vars

\* line 87: data is empty; line 111
PollEmpty ==
    /\ InAttempt("poll")
    /\ before_deadline(clock)
    /\ \E d \in Latency : clock' = clock + d + PollInterval
    /\ polled' = TRUE
    /\ last_poll' = "empty"
    /\ UNCHANGED <<batch_vars, ret, pc, local_vars, processed_ids, extracted>>
    /\ UNCHANGED probe_vars

\* lines 88-91: the newest message was processed before; line 111
PollSeen(m) ==
    /\ InAttempt("poll")
    /\ before_deadline(clock)
    /\ ~is_new(email_id_of(m), processed_ids)
    /\ \E d \in Latency : clock' = clock + d + PollInterval
    /\ polled' = TRUE
    /\ last_poll' = "seen"
    /\ UNCHANGED <<batch_vars, ret, pc, local_vars, processed_ids, extracted>>
    /\ UNCHANGED probe_vars

\* lines 88-111: the newest message is new: it is added to processed_ids and
\* searched.  A code returns at once; no code sleeps; an exception (a source
\* that is None) is swallowed and skips the sleep.
PollNew(m) ==
    /\ InAttempt("poll")
    /\ before_deadline(clock)
    /\ is_new(email_id_of(m), processed_ids)
    /\ processed_ids' = processed_ids \cup {email_id_of(m)}
    /\ extracted' = [extracted EXCEPT ![email_id_of(m)] = @ + 1]
    /\ polled' = TRUE
    /\ LET r == extract_code(m) IN
       \E d \in Latency :
        IF r.raised
        THEN /\ clock' = clock + d
             /\ last_poll' = "raised"
             /\ UNCHANGED <<pc, code>>
        ELSE IF r.code # <<>>
        THEN /\ clock' = clock + d
             /\ code' = r.code
             /\ pc' = "got_code"
             /\ last_poll' = "code"
        ELSE /\ clock' = clock + d + PollInterval
             /\ last_poll' = "no_code"
             /\ UNCHANGED <<pc, code>>
    /\ UNCHANGED <<batch_vars, ret, email, driver, quits, success, pass_check,
                   attempt, probes, all_cookies, client_key, uploads, hist_vars, logged>>
    /\ UNCHANGED probe_vars

\* line 114: the deadline has passed: return None
PollDeadline ==
    /\ InAttempt("poll")
    /\ ~before_deadline(clock)
    /\ code' = <<>>
    /\ pc' = "got_code"
    /\ UNCHANGED <<batch_vars, ret, email, driver, quits, success, pass_check,
                   attempt, probes, all_cookies, client_key, uploads, hist_vars, logged,
                   poll_vars>>
    /\ UNCHANGED probe_vars

(***************************************************************************)
(* register_one_account after wait_for_code.                               *)
(***************************************************************************)
\* lines 292-293: no code: log, fall through to the finally block.  The
\* locals of wait_for_code are gone once it has returned.
CodeTimeout ==
    /\ InAttempt("got_code")
    /\ code = <<>>
    /\ logged' = logged \cup {"CodeTimeout"}
    /\ pc' = "finally"
    /\ clock' = 0
    /\ processed_ids' = {}
    /\ extracted' = NoExtraction
    /\ last_poll' = "none"
    /\ UNCHANGED <<batch_vars, ret, email, driver, quits, success, pass_check,
                   attempt, probes, code, all_cookies, client_key, uploads, hist_vars, polled>>
    /\ UNCHANGED probe_vars

\* lines 236-239: otp_input.send_keys(code), time.sleep(5)
SubmitCode ==
    /\ InAttempt("got_code")
    /\ code # <<>>
    /\ \E ok \in BOOLEAN : pc' = IF ok THEN "current_url" ELSE "except"
    /\ clock' = 0
    /\ processed_ids' = {}
    /\ extracted' = NoExtraction
    /\ last_poll' = "none"
    /\ UNCHANGED <<batch_vars, ret, local_vars, polled>>
    /\ UNCHANGED probe_vars

\* line 242: "sign-up" in driver.current_url; reading the URL may raise
ReadUrl ==
    /\ InAttempt("current_url")
    /\ \E u \in {"sign-up", "other", "raise"} :
        pc' = CASE u = "sign-up" -> "username"
                [] u = "other" -> "cookies"
                [] OTHER -> "except"
    /\ UNCHANGED <<batch_vars, ret, local_vars, poll_vars>>
    /\ UNCHANGED probe_vars

\* lines 243-251: wait for the username field, fill it, click Continue; the
\* bare except swallows whatever is raised
ResolveUsername ==
    /\ InAttempt("username")
    /\ \E outcome \in {"done", "no_field", "fill_raised", "no_button", "click_raised"} :
        pc' = "cookies"
    /\ UNCHANGED <<batch_vars, ret, local_vars, poll_vars>>
    /\ UNCHANGED probe_vars

\* lines 254-260: Network.getAllCookies; when it raises, driver.get_cookies(),
\* which may raise as well
ExtractCookies ==
    /\ InAttempt("cookies")
    /\ \/ \E l \in CookieLists : all_cookies' = l /\ pc' = "select"
       \/ all_cookies' = all_cookies /\ pc' = "except"
    /\ extract_tried' = TRUE
    /\ UNCHANGED <<batch_vars, ret, email, driver, quits, success, pass_check,
                   attempt, probes, code, client_key, uploads, appended, registry,
                   logged, poll_vars>>
    /\ UNCHANGED probe_vars

\* lines 262-277
SelectCredential ==
    /\ InAttempt("select")
    /\ client_key' = select_client_key(all_cookies)
    /\ pc' = "check_key"
    /\ UNCHANGED <<batch_vars, ret, email, driver, quits, success, pass_check,
                   attempt, probes, code, all_cookies, uploads, hist_vars, logged, poll_vars>>
    /\ UNCHANGED probe_vars

\* lines 289-291: no key
CredentialNotFound ==
    /\ InAttempt("check_key")
    /\ client_key = "None"
    /\ logged' = logged \cup {"CredentialNotFound"}
    /\ success' = FALSE
    /\ pc' = "finally"
    /\ UNCHANGED <<batch_vars, ret, email, driver, quits, pass_check, attempt,
                   probes, code, all_cookies, client_key, uploads, hist_vars, poll_vars>>
    /\ UNCHANGED probe_vars

\* lines 279-285 with a write whose failure is passed over: the upload
\* follows a line that was not written
WriteKeyIgnoresFailure ==
    /\ InAttempt("check_key")
    /\ client_key # "None"
    /\ \E ok \in BOOLEAN :
        IF ok
        THEN file' = Append(file, client_key) /\ appended' = appended + 1
        ELSE file' = file /\ appended' = appended
    /\ pc' = "upload"
    /\ UNCHANGED <<mainpc, i, success_count, jitters, leaked, ret, email, driver,
                   quits, success, pass_check, attempt, probes, code, all_cookies,
                   client_key, uploads, extract_tried, registry, logged, poll_vars>>
    /\ UNCHANGED probe_vars

\* lines 279-282: append the key and a newline to OUTPUT_FILE
WriteKey ==
    /\ InAttempt("check_key")
    /\ client_key # "None"
    /\ \E ok \in BOOLEAN :
        IF ok
        THEN file' = Append(file, client_key) /\ appended' = appended + 1 /\ pc' = "upload"
        ELSE file' = file /\ appended' = appended /\ pc' = "except"
    /\ UNCHANGED <<mainpc, i, success_count, jitters, leaked, ret, email, driver,
                   quits, success, pass_check, attempt, probes, code, all_cookies,
                   client_key, uploads, extract_tried, registry, logged, poll_vars>>
    /\ UNCHANGED probe_vars

\* upload_to_server without the try of line 45: an exception of the POST
\* reaches the caller
UploadRaises ==
    /\ InAttempt("upload")
    /\ \E response \in Responses :
        /\ registry' = response
        /\ pc' = IF response = "exception" THEN "except" ELSE "quit"
    /\ uploads' = Append(uploads, client_key)
    /\ UNCHANGED <<batch_vars, ret, email, driver, quits, success, pass_check,
                   attempt, probes, code, all_cookies, client_key, appended,
                   extract_tried, logged, poll_vars>>
    /\ UNCHANGED probe_vars

\* line 285 with upload_to_server (44-62): one POST; status 200 or 201, any
\* other status, or an exception, all logged inside; nothing is raised
Upload ==
    /\ InAttempt("upload")
    /\ \E response \in Responses : registry' = response
    /\ uploads' = Append(uploads, client_key)
    /\ pc' = "quit"
    /\ UNCHANGED <<batch_vars, ret, email, driver, quits, success, pass_check,
                   attempt, probes, code, all_cookies, client_key, appended,
                   extract_tried, logged, poll_vars>>
    /\ UNCHANGED probe_vars

\* lines 287-288: driver.quit(), then success = True; a raising quit goes
\* to the handler with success still False
QuitAfterUpload ==
    /\ InAttempt("quit")
    /\ quits' = quits + 1
    /\ \E ok \in BOOLEAN :
        IF ok
        THEN driver' = "released" /\ success' = TRUE /\ pc' = "finally"
        ELSE driver' = driver /\ success' = success /\ pc' = "except"
    /\ UNCHANGED <<batch_vars, ret, email, pass_check, attempt, probes, code,
                   all_cookies, client_key, uploads, hist_vars, logged, poll_vars>>
    /\ UNCHANGED probe_vars

\* a handler that starts the page over instead of giving the attempt up
HandlerRetries ==
    /\ InAttempt("except")
    /\ logged' = logged \cup {"UnhandledError"}
    /\ pc' = "get"
    /\ UNCHANGED <<batch_vars, ret, email, driver, quits, success, pass_check,
                   attempt, probes, code, all_cookies, client_key, uploads, hist_vars, poll_vars>>
    /\ UNCHANGED probe_vars

\* lines 295-298: except Exception: log the error and the traceback
Handler ==
    /\ InAttempt("except")
    /\ logged' = logged \cup {"UnhandledError"}
    /\ pc' = "finally"
    /\ UNCHANGED <<batch_vars, ret, email, driver, quits, success, pass_check,
                   attempt, probes, code, all_cookies, client_key, uploads, hist_vars, poll_vars>>
    /\ UNCHANGED probe_vars

\* lines 299-302: finally: driver.quit() inside try/except: pass
Teardown ==
    /\ InAttempt("finally")
    /\ quits' = quits + 1
    /\ \E ok \in BOOLEAN : driver' = IF ok THEN "released" ELSE driver
    /\ pc' = "taskkill"
    /\ UNCHANGED <<batch_vars, ret, email, success, pass_check, attempt, probes,
                   code, all_cookies, client_key, uploads, hist_vars, logged, poll_vars>>
    /\ UNCHANGED probe_vars

\* lines 303-306: taskkill /f /im chrome.exe ends a browser that is still
\* running, or fails to (its result is ignored); then return success.  The
\* locals of the call are gone.
KillAndReturn ==
    /\ InAttempt("taskkill")
    /\ \E killed \in BOOLEAN :
        driver' = IF killed /\ driver = "live" THEN "killed" ELSE driver
    /\ ret' = IF success THEN "True" ELSE "False"
    /\ pc' = "idle"
    /\ email' = "None"
    /\ success' = FALSE
    /\ pass_check' = FALSE
    /\ attempt' = 0
    /\ probes' = 0
    /\ code' = <<>>
    /\ all_cookies' = <<>>
    /\ client_key' = "None"
    /\ uploads' = <<>>
    /\ appended' = 0
    /\ extract_tried' = FALSE
    /\ registry' = "none"
    /\ UNCHANGED <<batch_vars, quits, logged, poll_vars>>
    /\ UNCHANGED probe_vars

(***************************************************************************)
(* Specifications.                                                         *)
(***************************************************************************)
Next ==
    \/ Truncate
    \/ CallAttempt
    \/ Summary
    \/ Tally
    \/ JitterSleep
    \/ NoJitter
    \/ Crash
    \/ AcquireMailbox
    \/ CreateSession
    \/ SetupSession
    \/ Navigate
    \/ OpenSignIn
    \/ FillCredentials
    \/ ClickContinue
    \/ ChallengeCheck
    \/ Probe
    \/ ChallengeExhausted
    \/ ChallengeNotCleared
    \/ AwaitOtpInput
    \/ EnterWaitForCode
    \/ PollError
    \/ PollEmpty
    \/ \E m \in Messages : PollSeen(m)
    \/ \E m \in Messages : PollNew(m)
    \/ PollDeadline
    \/ CodeTimeout
    \/ SubmitCode
    \/ ReadUrl
    \/ ResolveUsername
    \/ ExtractCookies
    \/ SelectCredential
    \/ CredentialNotFound
    \/ WriteKey
    \/ Upload
    \/ QuitAfterUpload
    \/ Handler
    \/ Teardown
    \/ KillAndReturn

Spec == Init /\ [][Next]_vars

\* every call returns or fails and the clock advances: a step that can be
\* taken is eventually taken
FairSpec == Spec /\ WF_vars(Next)

(***************************************************************************)
(* force_inject_turnstile on its own: one call on every page.              *)
(***************************************************************************)
ProbeInit ==
    /\ mainpc = "truncate" /\ i = 0 /\ success_count = 0 /\ file = <<>>
    /\ jitters = 0 /\ leaked = FALSE /\ ret = "none" /\ pc = "idle"
    /\ email = "None" /\ driver = "none" /\ quits = 0 /\ success = FALSE
    /\ pass_check = FALSE /\ attempt = 0 /\ probes = 0 /\ code = <<>>
    /\ all_cookies = <<>> /\ client_key = "None" /\ uploads = <<>>
    /\ appended = 0 /\ extract_tried = FALSE /\ registry = "none"
    /\ logged = {} /\ clock = 0 /\ processed_ids = {}
    /\ extracted = NoExtraction /\ polled = FALSE /\ last_poll = "none"
    /\ probe_in \in Pages
    /\ probe_out = NoProbe

\* lines 118-167: the call
CallProbe ==
    /\ ~probe_out.called
    /\ probe_out' = force_inject_turnstile(probe_in)
    /\ UNCHANGED <<batch_vars, ret, pc, local_vars, poll_vars, probe_in>>

ProbeNext == CallProbe
ProbeSpec == ProbeInit /\ [][ProbeNext]_vars

(***************************************************************************)
(* Properties.                                                             *)
(***************************************************************************)
IsAuthSubdomain(d) == d = <<"clerk", "orchids", "app">>
IsParentDomain(d) == d = <<"orchids", "app">>

SubdomainKeys(cs) ==
    { cs[k].value : k \in { j \in DOMAIN cs :
        cs[j].name = "__client" /\ IsAuthSubdomain(cs[j].domain) } }
ParentKeys(cs) ==
    { cs[k].value : k \in { j \in DOMAIN cs :
        cs[j].name = "__client" /\ IsParentDomain(cs[j].domain) } }

\* C1: whenever the extracted cookies hold a __client cookie of the clerk
\* sub-domain and one of the parent domain, in whatever order, the selected
\* credential is the value of the sub-domain cookie, and so are the line
\* written and the value sent to the registry.
C1_SubdomainCredentialSelected ==
    (SubdomainKeys(all_cookies) # {} /\ ParentKeys(all_cookies) # {}) =>
        /\ pc \in {"check_key", "upload", "quit"} => client_key \in SubdomainKeys(all_cookies)
        /\ pc \in {"upload", "quit"} => file[Len(file)] \in SubdomainKeys(all_cookies)
        /\ pc = "quit" => uploads[Len(uploads)] \in SubdomainKeys(all_cookies)

\* C2: between attempts and at the summary, the output store has as many
\* lines as attempts have returned True so far.
C2_StoreMatchesSuccesses ==
    mainpc \in {"jitter", "loop", "summary"} => Len(file) = success_count

\* C3: when register_one_account has returned or raised after creating a
\* session, driver.quit() has been called in that attempt.
C3_SessionReleasedOnExit ==
    (mainpc = "attempt" /\ ret # "none" /\ driver # "none") => quits >= 1

\* C4: register_one_account never raises to the batch loop, so the batch is
\* never cut short.
C4_NeverRaises ==
    ret # "raised" /\ mainpc # "crashed"

\* C5: every attempt that has started eventually returns True (Success) or
\* False (Failed).
C5_AttemptTerminates ==
    (mainpc = "attempt") ~> (ret \in {"True", "False"})

\* the part of C5 that is about the loops: every attempt that has started
\* eventually leaves register_one_account, by a return or by an exception
AttemptEnds ==
    (mainpc = "attempt") ~> (ret # "none")

\* C6: leaving the challenge loop with the input found at check k = attempt + 1
\* happens after exactly k - 1 probes and leads to the code stage only then;
\* leaving it without the input happens after exactly 15 checks and 15
\* probes, and such an attempt logs ChallengeNotCleared, never queries the
\* mailbox for messages and returns False.
C6_ChallengeLoop ==
    /\ (pc = "after_loop" /\ pass_check) =>
            attempt < ProbeBudget /\ probes = attempt
    /\ (pc = "after_loop" /\ ~pass_check) =>
            attempt = ProbeBudget /\ probes = ProbeBudget
    /\ pc \in {"wait_for_code", "poll", "got_code"} => pass_check
    /\ probes <= ProbeBudget
    /\ (probes = ProbeBudget /\ pc \in {"except", "finally", "taskkill"}) =>
            "ChallengeNotCleared" \in logged
    /\ "ChallengeNotCleared" \in logged => ~polled /\ ret # "True"

\* the input is found at the check of iteration 5
C6_Witness ==
    pc = "after_loop" /\ pass_check /\ attempt = 4 /\ probes = 4

\* C7: within one call of wait_for_code the extraction runs at most once on
\* a message identifier, and before the first query of an attempt the dedup
\* set is empty.
C7_Dedup ==
    /\ \A id \in Ids : extracted[id] <= 1
    /\ \A id \in Ids : extracted[id] = 1 <=> id \in processed_ids
    /\ (pc = "poll" /\ ~polled) => processed_ids = {}

\* a poll returned a processed message as the newest again and skipped it
C7_Witness ==
    pc = "poll" /\ last_poll = "seen" /\ extracted["id1"] = 1 /\ i = 1

\* C8: wait_for_code returns None only once 120 s have elapsed; a poll that
\* raised does not end it.
C8_FailsOnlyByDeadline ==
    /\ (pc = "got_code" /\ code = <<>>) => clock >= Deadline
    /\ last_poll \in {"error", "raised", "no_code"} /\ clock < Deadline => pc = "poll"

\* the deadline passed right after a poll that raised
C8_Witness ==
    pc = "got_code" /\ code = <<>> /\ last_poll = "error"

\* the isolated runs of six digits of a text, by their start
IsolatedRuns(s) ==
    { k \in 1..Len(s) :
        /\ k + CodeLen - 1 <= Len(s)
        /\ \A j \in k..(k + CodeLen - 1) : s[j] \in Digits
        /\ (k > 1 => s[k - 1] \notin Digits)
        /\ (k + CodeLen <= Len(s) => s[k + CodeLen] \notin Digits) }
FirstRun(s) ==
    IF IsolatedRuns(s) = {} THEN <<>>
    ELSE LET k == CHOOSE a \in IsolatedRuns(s) : \A b \in IsolatedRuns(s) : a <= b
         IN SubSeq(s, k, k + CodeLen - 1)
\* the subject as text: nothing when it is missing
SubjectText(m) ==
    IF "subject" \in DOMAIN m /\ m["subject"].t = "str" THEN m["subject"].s ELSE <<>>
ExpectedCode(m) ==
    IF FirstRun(SubjectText(m)) # <<>> THEN FirstRun(SubjectText(m))
    ELSE FirstRun(text_content(raw_content_of(m)))

\* C9: a poll before the deadline whose newest message is new returns the
\* first isolated run of the subject, else that of the cleaned body, and
\* goes on polling only when neither has one.
C9_ExtractionResult ==
    [][\A m \in Messages :
        PollNew(m) =>
            IF ExpectedCode(m) # <<>>
            THEN pc' = "got_code" /\ code' = ExpectedCode(m)
            ELSE pc' = "poll"]_vars

\* C10: before attempt i + 1 and while it runs, i sleeps have been executed;
\* at the summary of a batch of total_num attempts, total_num - 1.
C10_JitterCount ==
    /\ jitters = IF i < total_num THEN i ELSE total_num - 1
    /\ mainpc = "summary" => i = total_num /\ jitters = total_num - 1

\* the batch is over with one failed attempt
C10_Witness ==
    mainpc = "summary" /\ success_count = total_num - 1 /\ jitters = total_num - 1

\* C11: the output store is emptied by the first step of the batch only, so
\* the first attempt starts on an empty store; every later change of it
\* appends one line to what is there, is made by a running attempt and is
\* counted by it, and no attempt appends more than one line.
C11_AppendOnly ==
    /\ [][file' # file =>
            \/ mainpc = "truncate" /\ file' = <<>>
            \/ /\ mainpc = "attempt" /\ mainpc' = "attempt"
               /\ Len(file') = Len(file) + 1
               /\ SubSeq(file', 1, Len(file)) = file
               /\ appended' = appended + 1]_vars
    /\ [][mainpc' = "truncate" => mainpc = "truncate"]_vars
    /\ []((mainpc = "loop" /\ i = 0) => file = <<>>)
    /\ [](appended <= 1)

\* the second attempt has added its line under the line of the first
C11_Witness ==
    mainpc = "attempt" /\ i = 1 /\ appended = 1 /\ Len(file) = 2

\* C12: an attempt in which wait_for_code returned a code does not end
\* without having asked the session for its cookies, whatever happens when
\* the code is typed into the input.
C12_SubmitNonFatal ==
    (code # <<>> /\ pc \in {"except", "finally", "taskkill"}) => extract_tried

\* C13: from the reading of the URL after the code was sent and from the
\* username step, the attempt goes on to the extraction of the cookies,
\* whatever fails there.
C13_ResolveUsernameNeverAborts ==
    [][(pc \in {"current_url", "username"}) =>
            (pc' \in {"current_url", "username", "cookies"})]_vars

\* C14: the call of upload_to_server returns to the line after it with every
\* response, an exception of the POST included, and changes neither the
\* output store nor the outcome; after it the line of this attempt is the
\* last of the store, and unless something else raised the attempt returns
\* True, whatever the registry answered.
C14_RegistryNonFatal ==
    /\ [][pc = "upload" =>
            /\ pc' \in {"upload", "quit"}
            /\ file' = file /\ success' = success /\ appended' = appended]_vars
    /\ [](registry # "none" =>
            appended = 1 /\ file # <<>> /\ file[Len(file)] = client_key)
    /\ []((pc = "taskkill" /\ registry # "none" /\ "UnhandledError" \notin logged)
            => success)

\* the POST raised and the attempt is about to return True, its line written
C14_Witness ==
    pc = "taskkill" /\ registry = "exception" /\ success /\ appended = 1

\* C15: no attempt starts while the session of an earlier attempt is still
\* running, so never two sessions run at once.
C15_SessionExclusive ==
    ~leaked

\* the stage a position of register_one_account belongs to, in the order
\* AcquireMailbox, OpenSignIn, FillCredentials, DefeatChallenge, AwaitCode,
\* SubmitCode, ResolveUsername, ExtractCredential, Publish, Teardown
StageOf(at) ==
    CASE at = "create_temp_email" -> 1
      [] at \in {"create_session", "setup_session", "get", "open_sign_in"} -> 2
      [] at \in {"fill", "continue"} -> 3
      [] at \in {"loop_check", "probe", "after_loop"} -> 4
      [] at \in {"wait_for_code", "poll"} -> 5
      [] at = "got_code" -> 6
      [] at \in {"current_url", "username"} -> 7
      [] at \in {"cookies", "select", "check_key"} -> 8
      [] at \in {"upload", "quit"} -> 9
      [] at \in {"except", "finally", "taskkill"} -> 10
      [] OTHER -> 0

\* C16: inside an attempt the stage never goes back; the mailbox stage is
\* entered only by the call of the attempt; an attempt is called only from
\* the loop head, the loop head is reached again only with the index raised
\* by one, and the summary is reached with every index used.
C16_ForwardOnly ==
    /\ [][(pc # "idle" /\ pc' # "idle") => StageOf(pc') >= StageOf(pc)]_vars
    /\ [][(pc' = "create_temp_email" /\ pc # "create_temp_email") =>
            pc = "idle" /\ mainpc = "loop" /\ mainpc' = "attempt"]_vars
    /\ [][(mainpc' = "attempt" /\ mainpc # "attempt") =>
            mainpc = "loop" /\ i < total_num /\ i' = i]_vars
    /\ [][(mainpc' = "loop" /\ mainpc # "loop") =>
            \/ mainpc = "truncate" /\ i' = 0
            \/ mainpc = "jitter" /\ i' = i + 1]_vars
    /\ [][i' # i => mainpc = "jitter" /\ i' = i + 1]_vars
    /\ [](mainpc = "summary" => i = total_num)

\* the second attempt went through every stage and is about to return True
C16_Witness ==
    pc = "taskkill" /\ success /\ i = 1 /\ registry # "none" /\ polled

\* one query of the mailbox: lines 83-85 of one iteration of the loop
Query ==
    PollError \/ PollEmpty \/ (\E m \in Messages : PollSeen(m) \/ PollNew(m))

\* C17: a query that is not the first of its call of wait_for_code comes
\* after the sleep of line 111.
C17_PollPacing ==
    [][(polled /\ Query) => slept]_vars

\* C18: one call of force_inject_turnstile clicks at most once, runs no
\* script after a click, and returns True exactly when it clicked.
C18_ProbeContract ==
    probe_out.called =>
        /\ probe_out.clicks <= 1
        /\ probe_out.searched_after_click = 0
        /\ probe_out.ret <=> probe_out.clicks >= 1

\* the cookies of this attempt hold one named __client
HasClientCookie ==
    \E k \in DOMAIN all_cookies : all_cookies[k].name = "__client"

\* C19: an attempt calls the registry at most once, with the value it has
\* just appended to the output store; an attempt whose cookies hold none
\* named __client appends nothing, sends nothing, logs CredentialNotFound
\* and does not return True.
C19_PublishGuard ==
    /\ Len(uploads) <= 1
    /\ uploads # <<>> =>
            /\ appended = 1 /\ file # <<>>
            /\ uploads[1] = file[Len(file)] /\ uploads[1] = client_key
            /\ HasClientCookie
    /\ (extract_tried /\ pc \notin {"cookies", "select"} /\ ~HasClientCookie
            /\ "UnhandledError" \notin logged /\ pc # "except") =>
            /\ "CredentialNotFound" \in logged \/ pc = "check_key"
            /\ appended = 0 /\ uploads = <<>> /\ ~success
    /\ "CredentialNotFound" \in logged =>
            /\ pc \in {"finally", "taskkill"} => appended = 0 /\ uploads = <<>> /\ ~success
            /\ ret # "True"

\* the registry got the key that is the last line of the store
C19_Witness ==
    pc = "quit" /\ uploads = <<"B">> /\ appended = 1 /\ file = <<"A", "B">>

\* C20: an attempt that got no address returns False at once: no session,
\* no call of driver.quit, no query of the mailbox, no line appended, nothing
\* sent, and the tally is not raised for it.
C20_MailboxFailureInert ==
    /\ []("MailboxUnavailable" \in logged =>
            /\ ret = "False" /\ pc = "idle"
            /\ driver = "none" /\ quits = 0 /\ ~polled
            /\ appended = 0 /\ uploads = <<>> /\ registry = "none"
            /\ logged = {"MailboxUnavailable"})
    /\ [][("MailboxUnavailable" \in logged \/ "MailboxUnavailable" \in logged') =>
            file' = file /\ success_count' = success_count]_vars

\* the second attempt got no address: the line and the tally of the first
\* are what they were
C20_Witness ==
    /\ mainpc = "jitter" /\ i = 1 /\ "MailboxUnavailable" \in logged
    /\ file = <<"A">> /\ success_count = 1

====
